---------------------------- MODULE Spec2Model ----------------------------
(***************************************************************************)
(* Model of paddlenlp/peft/vera/vera_layers.py (VeRALinear) and            *)
(* paddlenlp/peft/reft/pareft/reft_model.py (ReftModel).                   *)
(*                                                                         *)
(* Numbers.  Tensor arithmetic is taken over exact numbers: floating-point *)
(* rounding, which includes the rounding of a precision cast (astype), is  *)
(* not modelled.  scaling = vera_alpha / r is a fraction, so the tensors   *)
(* that carry it (weight, bias, scaling, the result of forward) hold       *)
(* numerators over the common denominator Den; 1.0 is the numerator One.   *)
(* lora_A, lora_B, vera_d, vera_b and the input of forward hold integers.  *)
(*                                                                         *)
(* The layer is modelled in its default configuration vera_dropout = 0.0,  *)
(* where self.vera_dropout is the identity function (line 50).             *)
(***************************************************************************)
EXTENDS Integers, Sequences, FiniteSets, TLC

VARIABLES
    \* ---- VeRALinear ----
    pc,             \* "new": not constructed, "ok": constructed, "failed": __init__ raised
    err,            \* the exception __init__ raised, or "none"
    args,           \* the arguments __init__ was called with
    weight,         \* self.weight   [in_features, out_features]
    bias,           \* self.bias     [out_features]
    lora_A,         \* self.lora_A   [in_features, r]
    lora_B,         \* self.lora_B   [r, out_features]
    vera_b,         \* self.vera_b   [out_features]
    vera_d,         \* self.vera_d   [r]
    r,              \* self.r
    vera_alpha,     \* self.vera_alpha
    scaling,        \* self.scaling
    merged,         \* self.merged
    merge_weights,  \* self.merge_weights
    training,       \* self.training (set by Layer.train / Layer.eval)
    ret,            \* what the last call returned
    ops,            \* the last two calls that may change the layer, most recent last
    W0,             \* history: weight right after construction
    nupd,           \* history: number of parameter updates so far
    dirty,          \* history: a parameter was updated while merged
    \* ---- ReftModel ----
    model,          \* self.model.parameters()
    interventions,  \* self.interventions: key -> list of modules
    report          \* what print_trainable_parameters logged or raised

veraVars == <<pc, err, args, weight, bias, lora_A, lora_B, vera_b, vera_d, r,
              vera_alpha, scaling, merged, merge_weights, training, ret, ops,
              W0, nupd, dirty>>
reftVars == <<model, interventions, report>>
vars == <<veraVars, reftVars>>

None == "None"
Unset == <<>>
\* train, eval and an update return nothing
NoResult == [input |-> Unset, result |-> Unset]
\* print_trainable_parameters was not called
NoReport == [logged |-> Unset, err |-> "none", summary |-> Unset]

(***************************************************************************)
(* Bounds and the arguments of __init__                                    *)
(***************************************************************************)
\* the number of optimizer updates of the adapter parameters in one run
MaxUpdates == 3

\* the ranks a caller passes: r = 0 is the default of __init__
RankVals == {-1, 0, 1, 2, 3}
\* r as passed: an int, or a value of another type (a float such as 2.0)
RankArgs == [isint : BOOLEAN, val : RankVals]
Alphas == {1, 2}

\* the least common multiple of the positive ranks
Den == CHOOSE d \in 1..36 :
          /\ \A k \in RankVals : k > 0 => d % k = 0
          /\ \A e \in 1..(d - 1) : \E k \in RankVals : k > 0 /\ e % k # 0
One == Den

(***************************************************************************)
(* Tensor operations (paddle): matrices are sequences of rows              *)
(***************************************************************************)
Rows(M) == Len(M)
Cols(M) == IF Len(M) = 0 THEN 0 ELSE Len(M[1])

\* a vector or a matrix given by its entries, as a tuple (of tuples)
Vector(f) == f \o <<>>
Matrix(f) == [i \in DOMAIN f |-> f[i] \o <<>>] \o <<>>

RECURSIVE SumTo(_, _)
SumTo(f, n) == IF n = 0 THEN 0 ELSE f[n] + SumTo(f, n - 1)

\* A @ B
MatMul(A, B) ==
    Matrix([i \in 1..Rows(A) |->
               [j \in 1..Cols(B) |->
                   SumTo([k \in 1..Rows(B) |-> A[i][k] * B[k][j]], Rows(B))]])

\* A + B, A - B (same shape)
MatAdd(A, B) == Matrix([i \in 1..Rows(A) |-> [j \in 1..Cols(A) |-> A[i][j] + B[i][j]]])
MatSub(A, B) == Matrix([i \in 1..Rows(A) |-> [j \in 1..Cols(A) |-> A[i][j] - B[i][j]]])

\* A * s, s a scalar
MatScale(A, s) == Matrix([i \in 1..Rows(A) |-> [j \in 1..Cols(A) |-> A[i][j] * s]])

\* paddle.diag(v) of a vector v
diag(v) == Matrix([i \in 1..Len(v) |-> [j \in 1..Len(v) |-> IF i = j THEN v[i] ELSE 0]])

\* a tensor of the given shape filled with a constant (nn.initializer.Constant)
ConstVec(n, c) == Vector([i \in 1..n |-> c])
ConstMat(n, m, c) == Matrix([i \in 1..n |-> [j \in 1..m |-> c]])

\* M + v, the vector v broadcast over the rows of M
AddRow(M, v) == Matrix([i \in 1..Rows(M) |-> [j \in 1..Cols(M) |-> M[i][j] + v[j]]])

Min(a, b) == IF a <= b THEN a ELSE b


(***************************************************************************)
(* VeRALinear.__init__                                                     *)
(***************************************************************************)
\* the donor layers: weight [2, 2] with bias [2], weight [2, 1] with bias [1]
Donors == { [weight |-> MatScale(<< <<1, 2>>, <<0, 1>> >>, One), bias |-> <<0, 0>>],
            [weight |-> MatScale(<< <<2, 1>>, <<1, 1>> >>, One), bias |-> <<One, -One>>],
            [weight |-> MatScale(<< <<2>>, <<1>> >>, One), bias |-> <<One>>] }

\* values an initializer or the optimizer gives a parameter of shape [n, m]
MatValues(n, m) == { Matrix([i \in 1..n |-> [j \in 1..m |-> 2 * i - j]]) }
VecValues(n) == { Vector([i \in 1..n |-> i + 1]) }

\* nn.initializer.KaimingUniform: some values, not all zero
KaimingUniform(n, m) == { Matrix([i \in 1..n |-> [j \in 1..m |-> i - j]]) }

\* line 42: not isinstance(r, int) or r <= 0
RankNotPositive(rk) == rk.val <= 0
RankInvalid(rk) == ~rk.isint \/ rk.val <= 0

\* line 56: assert self.vera_alpha == self.r
PissaRequirementDropped(alpha, rank) == TRUE
PissaRequirement(alpha, rank) == alpha = rank

\* line 84: self.scaling = self.vera_alpha / self.r
ScalingRatio(alpha, rank) == (alpha * One) \div rank

\* paddle.linalg.svd(weight, full_matrices=False), lines 112-119, as the pairs
\* <<U diag(sqrt S), diag(sqrt S) Vh>>: factors whose product is weight
FactorVals == 0..2
FactorMats(n, m) == [1..n -> [1..m -> FactorVals]]
svd(w) ==
    LET k == Min(Rows(w), Cols(w))
    IN  { f \in FactorMats(Rows(w), k) \X FactorMats(k, Cols(w)) :
            MatScale(MatMul(f[1], f[2]), One) = w }

\* M[:, :n] and M[:n]
FirstCols(M, n) == Matrix([i \in 1..Rows(M) |-> [j \in 1..Min(n, Cols(M)) |-> M[i][j]]])
FirstRows(M, n) == Matrix([i \in 1..Min(n, Rows(M)) |-> M[i]])

\* pissa_init, lines 105-125: the values it computes from one svd result f.
\* The casts to float32 and back (lines 109-110, 121-124) keep the values.
pissa_residual_kept(w, A, B) == w
pissa_residual(w, A, B) == MatSub(w, MatScale(MatMul(A, B), One))
pissa_values(w, rank, f) ==
    LET A == FirstCols(f[1], rank)
        B == FirstRows(f[2], rank)
    IN  [lora_A |-> A, lora_B |-> B, weight |-> pissa_residual(w, A, B)]

SetParams(w, A, B, vb, vd) ==
    /\ weight' = w
    /\ lora_A' = A
    /\ lora_B' = B
    /\ vera_b' = vb
    /\ vera_d' = vd

SetConfig(rank, alpha, sc, mg, mw) ==
    /\ r' = rank
    /\ vera_alpha' = alpha
    /\ scaling' = sc
    /\ merged' = mg
    /\ merge_weights' = mw

\* __init__ returns
Constructed ==
    /\ pc' = "ok"
    /\ err' = "none"
    /\ W0' = weight'
    /\ ops' = <<"none", "init">>

\* __init__ raises e: the caller gets no layer
Raised(e) ==
    /\ pc' = "failed"
    /\ err' = e
    /\ W0' = Unset
    /\ ops' = <<"none", "raise">>

Construct ==
    /\ pc = "new"
    /\ \E base \in Donors, rk \in RankArgs, alpha \in Alphas,
          mw \in BOOLEAN, pissa \in BOOLEAN :
        LET inF == Rows(base.weight)
            outF == Cols(base.weight)
        IN  /\ args' = [base |-> base, in_features |-> inF, out_features |-> outF,
                        r |-> rk, vera_alpha |-> alpha, merge_weights |-> mw,
                        pissa_init |-> pissa]
            \* line 39: nn.Linear.__init__ creates weight and a zero bias
            /\ bias' = ConstVec(outF, 0)
            /\ training' = TRUE
            /\ ret' = NoResult
            /\ UNCHANGED <<nupd, dirty, reftVars>>
            /\ IF RankInvalid(rk)
               THEN \* lines 40-43
                    /\ SetParams(base.weight, Unset, Unset, Unset, Unset)
                    /\ SetConfig(None, None, None, None, None)
                    /\ Raised("ValueError")
               ELSE IF pissa /\ ~PissaRequirement(alpha, rk.val)
               THEN \* lines 44-56
                    /\ SetParams(base.weight, Unset, Unset, Unset, Unset)
                    /\ SetConfig(rk.val, alpha, None, FALSE, mw)
                    /\ Raised("AssertionError")
               ELSE IF pissa
               THEN \E f \in svd(base.weight), A0 \in MatValues(inF, rk.val),
                       B0 \in MatValues(rk.val, outF) :
                      LET p == pissa_values(base.weight, rk.val, f)
                      IN  IF Cols(p.lora_A) # rk.val \/ Rows(p.lora_B) # rk.val
                          THEN \* line 121: set_value refuses a tensor of another shape
                               /\ SetParams(base.weight, A0, B0, Unset, Unset)
                               /\ SetConfig(rk.val, alpha, One, FALSE, mw)
                               /\ Raised("ShapeError")
                          ELSE \* lines 57-68, 84-101
                               /\ SetParams(p.weight, p.lora_A, p.lora_B,
                                            ConstVec(outF, 1), ConstVec(rk.val, 1))
                               /\ SetConfig(rk.val, alpha, ScalingRatio(alpha, rk.val),
                                            FALSE, mw)
                               /\ Constructed
               ELSE \* lines 72-101
                    \E A0 \in KaimingUniform(inF, rk.val) :
                        /\ SetParams(base.weight, A0, ConstMat(rk.val, outF, 0),
                                     ConstVec(outF, 1), ConstVec(rk.val, 1))
                        /\ SetConfig(rk.val, alpha, ScalingRatio(alpha, rk.val), FALSE, mw)
                        /\ Constructed


(***************************************************************************)
(* VeRALinear.train / eval / forward                                       *)
(***************************************************************************)
Called(op) == ops' = <<ops[2], op>>

\* line 130: if self.merge_weights and self.merged
train_guard == merge_weights /\ merged

\* line 134: self.weight - self.lora_A @ diag_d @ self.lora_B @ diag_b * self.scaling
train_new_weight_unscaled ==
    MatSub(weight,
           MatScale(MatMul(MatMul(MatMul(lora_A, diag(vera_d)), lora_B), diag(vera_b)), One))
train_new_weight ==
    MatSub(weight,
           MatScale(MatMul(MatMul(MatMul(lora_A, diag(vera_d)), lora_B), diag(vera_b)),
                    scaling))

\* line 140: if self.merge_weights and not self.merged
eval_unguarded == merge_weights
eval_ignores_option == ~merged
eval_guard == merge_weights /\ ~merged

\* line 144: self.weight + self.lora_A @ diag_d @ self.lora_B @ diag_b * self.scaling
eval_new_weight ==
    MatAdd(weight,
           MatScale(MatMul(MatMul(MatMul(lora_A, diag(vera_d)), lora_B), diag(vera_b)),
                    scaling))

\* lines 128-136
Train ==
    /\ pc = "ok"
    /\ training' = TRUE
    /\ IF train_guard
       THEN /\ weight' = train_new_weight
            /\ merged' = FALSE
       ELSE UNCHANGED <<weight, merged>>
    /\ ret' = NoResult
    /\ Called("train")
    /\ UNCHANGED <<pc, err, args, bias, lora_A, lora_B, vera_b, vera_d, r, vera_alpha,
                   scaling, merge_weights, W0, nupd, dirty, reftVars>>

\* lines 138-146
Eval ==
    /\ pc = "ok"
    /\ training' = FALSE
    /\ IF eval_guard
       THEN /\ weight' = eval_new_weight
            /\ merged' = TRUE
       ELSE UNCHANGED <<weight, merged>>
    /\ ret' = NoResult
    /\ Called("eval")
    /\ UNCHANGED <<pc, err, args, bias, lora_A, lora_B, vera_b, vera_d, r, vera_alpha,
                   scaling, merge_weights, W0, nupd, dirty, reftVars>>

\* F.linear(x, weight, bias) = x @ weight + bias
linear(x, w, b) == AddRow(MatMul(x, w), b)

\* lines 148-155, with self.vera_dropout the identity
forward_always_adds(input) ==
    MatAdd(linear(input, weight, bias),
           MatScale(MatMul(MatMul(MatMul(MatMul(input, lora_A), diag(vera_d)),
                                  lora_B), diag(vera_b)),
                    scaling))
forward(input) ==
    LET result == linear(input, weight, bias)
    IN  IF ~merged
        THEN MatAdd(result,
                    MatScale(MatMul(MatMul(MatMul(MatMul(input, lora_A), diag(vera_d)),
                                           lora_B), diag(vera_b)),
                             scaling))
        ELSE result

\* the input batches of forward: [2, in_features] and [1, in_features]
Inputs == { << <<1, 0>>, <<1, 2>> >>, << <<0, 1>> >> }

Forward ==
    /\ pc = "ok"
    /\ \E input \in Inputs : ret' = [input |-> input, result |-> forward(input)]
    /\ UNCHANGED <<pc, err, args, weight, bias, lora_A, lora_B, vera_b, vera_d, r,
                   vera_alpha, scaling, merged, merge_weights, training, ops, W0,
                   nupd, dirty, reftVars>>

\* An optimizer step on the trainable parameters created at lines 58-98: one of
\* lora_A, lora_B, vera_b, vera_d gets a new value.  weight is frozen (line 101).
Update ==
    /\ pc = "ok"
    /\ nupd < MaxUpdates
    /\ \/ \E v \in MatValues(Rows(lora_A), Cols(lora_A)) \ {lora_A} :
            lora_A' = v /\ UNCHANGED <<lora_B, vera_b, vera_d>>
       \/ \E v \in MatValues(Rows(lora_B), Cols(lora_B)) \ {lora_B} :
            lora_B' = v /\ UNCHANGED <<lora_A, vera_b, vera_d>>
       \/ \E v \in VecValues(Len(vera_b)) \ {vera_b} :
            vera_b' = v /\ UNCHANGED <<lora_A, lora_B, vera_d>>
       \/ \E v \in VecValues(Len(vera_d)) \ {vera_d} :
            vera_d' = v /\ UNCHANGED <<lora_A, lora_B, vera_b>>
    /\ nupd' = nupd + 1
    /\ dirty' = (dirty \/ merged)
    /\ ret' = NoResult
    /\ Called("update")
    /\ UNCHANGED <<pc, err, args, weight, bias, r, vera_alpha, scaling, merged,
                   merge_weights, training, W0, reftVars>>

\* an update before the layer is first used: the parameters are fixed afterwards
UpdateBeforeUse ==
    /\ ops[2] \in {"init", "update"}
    /\ Update


(***************************************************************************)
(* ReftModel                                                               *)
(***************************************************************************)
\* a parameter: p.numel() and p.stop_gradient.  A module is the sequence
\* module.parameters() of its parameters.
Params(numels) == [numel : numels, stop_gradient : BOOLEAN]

RECURSIVE SumTrainable(_, _)
SumTrainable(ps, n) ==
    IF n = 0 THEN 0
    ELSE (IF ~ps[n].stop_gradient THEN ps[n].numel ELSE 0) + SumTrainable(ps, n - 1)

RECURSIVE SumAll(_, _)
SumAll(ps, n) == IF n = 0 THEN 0 ELSE ps[n].numel + SumAll(ps, n - 1)

\* lines 21-22: sum(p.numel() for p in model.parameters() if not p.stop_gradient)
count_parameters(m) == SumTrainable(m, Len(m))

\* lines 36-38: for k, v in self.interventions.items(): ... += count_parameters(v[0])
RECURSIVE CountInterventions(_, _)
CountInterventions(reg, keys) ==
    IF keys = {} THEN 0
    ELSE LET k == CHOOSE x \in keys : TRUE
         IN  count_parameters(reg[k][1]) + CountInterventions(reg, keys \ {k})

RECURSIVE CountEveryModule(_, _)
CountEveryModule(reg, keys) ==
    IF keys = {} THEN 0
    ELSE LET k == CHOOSE x \in keys : TRUE
         IN  SumTo([i \in 1..Len(reg[k]) |-> count_parameters(reg[k][i])], Len(reg[k]))
             + CountEveryModule(reg, keys \ {k})

trainable_intervention_every_module == CountEveryModule(interventions, DOMAIN interventions)
trainable_intervention_parameters == CountInterventions(interventions, DOMAIN interventions)

\* line 40
trainable_model_parameters == SumTrainable(model, Len(model))
\* line 42
all_model_parameters == SumAll(model, Len(model))
\* line 44
total_trainable_parameters == trainable_intervention_parameters + trainable_model_parameters

\* line 52: 100 * total_trainable_parameters / all_model_parameters, a true
\* division: the fraction num / den, or ZeroDivisionError
percent_guarded(total, all) ==
    IF all = 0 THEN [raises |-> FALSE, num |-> 0, den |-> 1]
    ELSE [raises |-> FALSE, num |-> 100 * total, den |-> all]
percent(total, all) ==
    IF all = 0 THEN [raises |-> TRUE, num |-> 0, den |-> 0]
    ELSE [raises |-> FALSE, num |-> 100 * total, den |-> all]

\* lines 35-53.  The four logging.info calls of lines 46-49 come first; the
\* message of line 50 is formatted before it is logged, so a failing division
\* raises out of the method.
PrintTrainableParameters ==
    /\ LET pct == percent(total_trainable_parameters, all_model_parameters)
           logged == <<trainable_intervention_parameters, trainable_model_parameters,
                       all_model_parameters, total_trainable_parameters>>
       IN  report' = IF pct.raises
                     THEN [logged |-> logged, err |-> "ZeroDivisionError",
                           summary |-> Unset]
                     ELSE [logged |-> logged, err |-> "none",
                           summary |-> <<trainable_intervention_parameters,
                                         trainable_model_parameters,
                                         all_model_parameters,
                                         [num |-> pct.num, den |-> pct.den]>>]
    /\ UNCHANGED <<model, interventions, veraVars>>

(***************************************************************************)
(* Specifications                                                          *)
(***************************************************************************)
InitVera ==
    /\ pc = "new"
    /\ err = "none"
    /\ args = None
    /\ weight = Unset /\ bias = Unset
    /\ lora_A = Unset /\ lora_B = Unset /\ vera_b = Unset /\ vera_d = Unset
    /\ r = None /\ vera_alpha = None /\ scaling = None
    /\ merged = None /\ merge_weights = None /\ training = None
    /\ ret = NoResult
    /\ ops = <<"none", "none">>
    /\ W0 = Unset
    /\ nupd = 0
    /\ dirty = FALSE

Init ==
    /\ InitVera
    /\ model = <<>>
    /\ interventions = <<>>
    /\ report = NoReport

Next == Construct \/ Train \/ Eval \/ Forward \/ Update

\* one layer, from its construction on
Spec == Init /\ [][Next]_vars

NextFixed == Construct \/ Train \/ Eval \/ Forward \/ UpdateBeforeUse

\* one layer whose adapter parameters are fixed once it is first used
SpecFixed == Init /\ [][NextFixed]_vars

\* the base models and the intervention registries of a ReftModel
ModelNumels == {0, 10, 90}
BaseModels ==
    {<<>>} \cup { <<p>> : p \in Params(ModelNumels) }
           \cup { <<p, q>> : p \in Params(ModelNumels), q \in Params(ModelNumels) }
InterventionModules ==
    { <<>>,
      << [numel |-> 5, stop_gradient |-> FALSE] >>,
      << [numel |-> 5, stop_gradient |-> TRUE] >>,
      << [numel |-> 5, stop_gradient |-> FALSE], [numel |-> 10, stop_gradient |-> TRUE],
         [numel |-> 2, stop_gradient |-> FALSE] >> }
\* a registry entry: the intervention module first, possibly followed by another
Entries ==
    { <<m>> : m \in InterventionModules }
        \cup { <<m, n>> : m \in InterventionModules, n \in InterventionModules }
Keys == {"k1", "k2"}
Registries == UNION { [ks -> Entries] : ks \in SUBSET Keys }

InitReft ==
    /\ InitVera
    /\ model \in BaseModels
    /\ interventions \in Registries
    /\ report = NoReport

NextReft == PrintTrainableParameters

\* one ReftModel, from its construction on
SpecReft == InitReft /\ [][NextReft]_vars


(***************************************************************************)
(* Properties                                                              *)
(***************************************************************************)
\* scaling * lora_A diag(vera_d) lora_B diag(vera_b), as one [in, out] matrix
AdapterTerm ==
    MatScale(MatMul(lora_A, MatMul(diag(vera_d), MatMul(lora_B, diag(vera_b)))), scaling)
AdapterActive == AdapterTerm # ConstMat(Rows(AdapterTerm), Cols(AdapterTerm), 0)

\* x (W0 + scaling lora_A diag(vera_d) lora_B diag(vera_b)) + bias
AdaptedOutput(x) == AddRow(MatMul(x, MatAdd(W0, AdapterTerm)), bias)

\* C1 (merge transparency): for a layer with merge_weights = true whose adapter
\* parameters are fixed, after any sequence of train() and eval() calls
\* forward(x) is x (W0 + scaling lora_A diag(vera_d) lora_B diag(vera_b)) + bias
\* for every input x, merged or not: the low-rank term counts exactly once.
C1_MergeTransparency ==
    (pc = "ok" /\ merge_weights) =>
        /\ \A x \in Inputs : forward(x) = AdaptedOutput(x)
        /\ ret # NoResult => ret.result = AdaptedOutput(ret.input)

C1_Witness ==
    /\ pc = "ok" /\ merge_weights /\ merged
    /\ ops = <<"train", "eval">>
    /\ nupd > 0 /\ AdapterActive
    /\ vera_d # ConstVec(Len(vera_d), 1) /\ vera_b # ConstVec(Len(vera_b), 1)
    /\ ret # NoResult

\* C2 (zero-init no-op): a layer constructed with pissa_init = false, before
\* any parameter update, computes the donor layer's own output
\* x donor_weight + donor_bias for every input x.
C2_ZeroInitNoOp ==
    (pc = "ok" /\ ~args.pissa_init /\ nupd = 0) =>
        \A x \in Inputs : forward(x) = linear(x, args.base.weight, args.base.bias)

\* C3 (idempotent mode transitions): eval() called right after eval(), or
\* train() right after train(), leaves weight and merged as they were.
C3_IdempotentTransitions ==
    [][ (pc = "ok" /\ ops[2] \in {"train", "eval"} /\ ops' = <<ops[2], ops[2]>>)
            => (weight' = weight /\ merged' = merged) ]_vars

C3_Witness ==
    /\ pc = "ok" /\ merge_weights /\ merged
    /\ ops = <<"eval", "eval">>
    /\ AdapterActive

\* C4: with merge_weights = false no train() or eval() call changes weight or
\* merged (merged stays false, weight stays the constructed weight), and forward
\* always adds the low-rank term to x weight + bias.
C4_NoMergeOption ==
    (pc = "ok" /\ ~merge_weights) =>
        /\ merged = FALSE
        /\ weight = W0
        /\ \A x \in Inputs :
             forward(x) = MatAdd(AddRow(MatMul(x, weight), bias), MatMul(x, AdapterTerm))
        /\ ret # NoResult =>
             ret.result = MatAdd(AddRow(MatMul(ret.input, weight), bias),
                                 MatMul(ret.input, AdapterTerm))

C4_Witness ==
    /\ pc = "ok" /\ ~merge_weights
    /\ ops = <<"train", "eval">>
    /\ ~training
    /\ AdapterActive
    /\ ret # NoResult

\* C5: constructing with a rank that is not a positive integer raises
\* ValueError and gives no layer; every constructed layer has r >= 1.
C5_RankChecked ==
    /\ (pc # "new" /\ (~args.r.isint \/ args.r.val <= 0)) =>
            (pc = "failed" /\ err = "ValueError")
    /\ pc = "ok" => (args.r.isint /\ r = args.r.val /\ r >= 1)

C5_Witness ==
    /\ pc = "failed" /\ err = "ValueError"
    /\ args.r.isint /\ args.r.val = 0

\* C6: constructing with pissa_init = true and vera_alpha # r fails, before
\* pissa_init has touched weight, lora_A or lora_B; every layer constructed
\* with pissa_init = true has scaling = 1.
C6_PissaRequiresAlphaEqualsRank ==
    /\ (pc # "new" /\ args.pissa_init /\ args.vera_alpha # args.r.val) =>
            /\ pc = "failed"
            /\ err \in {"ValueError", "AssertionError"}
            /\ weight = args.base.weight
            /\ lora_A = Unset /\ lora_B = Unset
    /\ (pc = "ok" /\ args.pissa_init) => scaling = One

C6_Witness ==
    /\ pc = "failed" /\ err = "AssertionError"
    /\ args.pissa_init /\ args.vera_alpha = 2 /\ args.r = [isint |-> TRUE, val |-> 3]

\* C7 (PiSSA reconstruction): after construction with pissa_init = true, the
\* stored weight plus scaling lora_A diag(vera_d) lora_B diag(vera_b) is the
\* donor weight, whatever factors the decomposition gave, so that the first
\* eval() merge makes weight the donor weight again.
C7_PissaReconstruction ==
    (pc = "ok" /\ args.pissa_init /\ nupd = 0) =>
        /\ scaling = One
        /\ vera_d = ConstVec(r, 1) /\ vera_b = ConstVec(args.out_features, 1)
        /\ MatAdd(W0, AdapterTerm) = args.base.weight
        /\ ~merged => weight = W0
        /\ merged => weight = args.base.weight

C7_Witness ==
    /\ pc = "ok" /\ args.pissa_init /\ nupd = 0
    /\ merged /\ ops[2] = "eval"
    /\ W0 # args.base.weight
    /\ W0 # ConstMat(Rows(W0), Cols(W0), 0)

\* C10 as claimed (base weight recoverable): with merge_weights = true, under
\* any interleaving of train(), eval() and parameter updates, whenever merged
\* is false the weight is the constructed weight W0.
C10_BaseWeightRecoverable ==
    (pc = "ok" /\ merge_weights /\ ~merged) => weight = W0

\* C10 as amended: the same, for the interleavings in which the parameters are
\* updated only while merged is false.
C10_BaseWeightRecoverableUnmergedUpdates ==
    (pc = "ok" /\ merge_weights /\ ~merged /\ ~dirty) => weight = W0

C10_Witness ==
    /\ pc = "ok" /\ merge_weights /\ ~merged /\ ~dirty
    /\ ops = <<"eval", "train">>
    /\ nupd > 0 /\ AdapterActive


\* the counts of print_trainable_parameters, stated over the sets of parameters
RECURSIVE SumNumel(_)
SumNumel(S) ==
    IF S = {} THEN 0
    ELSE LET e == CHOOSE x \in S : TRUE IN e[2].numel + SumNumel(S \ {e})

\* the parameters, each with its place, of the first module of every entry
FirstModuleParams ==
    UNION { { <<<<k, i>>, interventions[k][1][i]>> : i \in DOMAIN interventions[k][1] } :
            k \in DOMAIN interventions }
ModelParams == { <<i, model[i]>> : i \in DOMAIN model }
Trainable(S) == { e \in S : ~e[2].stop_gradient }

\* C8: print_trainable_parameters computes the trainable element count of
\* every registry entry's first module, the trainable and the total element
\* counts of the base model, the sum of the first two, and the percentage
\* 100 * total / all; it changes neither the registry nor the parameters.
C8_ParameterCounts ==
    [][ report' # NoReport =>
          /\ report'.logged =
                << SumNumel(Trainable(FirstModuleParams)),
                   SumNumel(Trainable(ModelParams)),
                   SumNumel(ModelParams),
                   SumNumel(Trainable(FirstModuleParams))
                       + SumNumel(Trainable(ModelParams)) >>
          /\ report'.err = "none" =>
                /\ report'.summary[1] = SumNumel(Trainable(FirstModuleParams))
                /\ report'.summary[2] = SumNumel(Trainable(ModelParams))
                /\ report'.summary[3] = SumNumel(ModelParams)
                /\ report'.summary[4].den # 0
                /\ report'.summary[4].num * SumNumel(ModelParams) =
                       100 * (SumNumel(Trainable(FirstModuleParams))
                                + SumNumel(Trainable(ModelParams)))
                           * report'.summary[4].den
          /\ model' = model
          /\ interventions' = interventions ]_vars

\* 100 elements, 10 of them trainable, and one intervention with 5 trainable
\* elements: 5, 10, 100, 15 and 15.0
C8_Witness ==
    /\ model = << [numel |-> 90, stop_gradient |-> TRUE],
                  [numel |-> 10, stop_gradient |-> FALSE] >>
    /\ DOMAIN interventions = {"k1"}
    /\ interventions["k1"] = << << [numel |-> 5, stop_gradient |-> FALSE] >> >>
    /\ report # NoReport
    /\ report.logged = <<5, 10, 100, 15>>
    /\ report.summary[4].num = 15 * report.summary[4].den

\* C9: print_trainable_parameters raises a division error exactly when the
\* base model has no parameter element, however many trainable intervention
\* parameters there are, and completes when it has one.
C9_DivisionByZero ==
    report # NoReport =>
        /\ SumNumel(ModelParams) = 0 => report.err = "ZeroDivisionError"
        /\ SumNumel(ModelParams) > 0 => report.err = "none"

C9_Witness ==
    /\ report # NoReport
    /\ report.err = "ZeroDivisionError"
    /\ report.logged[1] > 0
    /\ report.logged[3] = 0

=============================================================================
